---- MODULE Spec2Model ----
(***************************************************************************)
(* Two-pass assembler of tools/assembler.py.                               *)
(*                                                                         *)
(* Text is modelled as sequences of one-character strings, so the line     *)
(* parser, the register / immediate parsers and str() are computed on the  *)
(* characters the way the Python code computes them.  Python exceptions    *)
(* are modelled as "raise" results carrying the message's parts.           *)
(***************************************************************************)
EXTENDS Integers, Sequences, FiniteSets, TLC

(***************************************************************************)
(* Bounds of the model.                                                    *)
(***************************************************************************)
MaxLines == 3
MaxImm == 65

(***************************************************************************)
(* Characters and strings.                                                 *)
(***************************************************************************)
LowerCase == << "a", "b", "c", "d", "e", "f", "g", "h", "i", "j", "k", "l", "m",
                "n", "o", "p", "q", "r", "s", "t", "u", "v", "w", "x", "y", "z" >>
UpperCase == << "A", "B", "C", "D", "E", "F", "G", "H", "I", "J", "K", "L", "M",
                "N", "O", "P", "Q", "R", "S", "T", "U", "V", "W", "X", "Y", "Z" >>
DigitChars == << "0", "1", "2", "3", "4", "5", "6", "7", "8", "9",
                 "A", "B", "C", "D", "E", "F" >>

\* str.upper() on one character
UpperChar(c) ==
    IF \E k \in 1..Len(LowerCase) : LowerCase[k] = c
    THEN UpperCase[CHOOSE k \in 1..Len(LowerCase) : LowerCase[k] = c]
    ELSE c

\* str.upper()
upper(s) == [k \in 1..Len(s) |-> UpperChar(s[k])]

\* the characters str.strip() removes and the regular expression's \s matches
IsSpace(c) == c \in {" ", "\t", "\n"}

RECURSIVE lstrip(_)
lstrip(s) == IF s # <<>> /\ IsSpace(Head(s)) THEN lstrip(Tail(s)) ELSE s

RECURSIVE rstrip(_)
rstrip(s) ==
    IF s # <<>> /\ IsSpace(s[Len(s)]) THEN rstrip(SubSeq(s, 1, Len(s) - 1)) ELSE s

\* str.strip()
strip(s) == rstrip(lstrip(s))

\* s.startswith(p)
startswith(s, p) == Len(s) >= Len(p) /\ SubSeq(s, 1, Len(p)) = p

\* s.endswith(p)
endswith(s, p) == Len(s) >= Len(p) /\ SubSeq(s, Len(s) - Len(p) + 1, Len(s)) = p

\* c in s
Contains(s, c) == \E k \in 1..Len(s) : s[k] = c

\* index of the first occurrence of character c in s (c occurs in s)
Find(s, c) == CHOOSE k \in 1..Len(s) : s[k] = c /\ \A j \in 1..(k - 1) : s[j] # c

\* s.split(c): all the parts between occurrences of the character c
RECURSIVE split(_, _)
split(s, c) ==
    IF Contains(s, c)
    THEN << SubSeq(s, 1, Find(s, c) - 1) >> \o split(SubSeq(s, Find(s, c) + 1, Len(s)), c)
    ELSE << s >>

\* s.split(c, 1): a split at the first occurrence only
split1(s, c) ==
    IF Contains(s, c)
    THEN << SubSeq(s, 1, Find(s, c) - 1), SubSeq(s, Find(s, c) + 1, Len(s)) >>
    ELSE << s >>

\* re.split(r'[,\s]+', s): the parts between maximal runs of commas and
\* white space; a leading or trailing run leaves an empty first or last part
IsSep(c) == c = "," \/ IsSpace(c)

RECURSIVE SkipSeps(_)
SkipSeps(s) == IF s # <<>> /\ IsSep(Head(s)) THEN SkipSeps(Tail(s)) ELSE s

RECURSIVE re_split(_)
re_split(s) ==
    IF \E k \in 1..Len(s) : IsSep(s[k])
    THEN LET k == CHOOSE k \in 1..Len(s) : IsSep(s[k]) /\ \A j \in 1..(k - 1) : ~IsSep(s[j])
         IN  << SubSeq(s, 1, k - 1) >> \o re_split(SkipSeps(SubSeq(s, k, Len(s))))
    ELSE << s >>

\* [p.strip() for p in parts if p.strip()]
RECURSIVE NonEmpty(_)
NonEmpty(parts) ==
    IF parts = <<>> THEN <<>>
    ELSE IF strip(Head(parts)) = <<>> THEN NonEmpty(Tail(parts))
    ELSE << strip(Head(parts)) >> \o NonEmpty(Tail(parts))

(***************************************************************************)
(* Results of the functions that can raise.                                *)
(***************************************************************************)
Return(v) == [tag |-> "return", value |-> v, kind |-> "", text |-> <<>>, hi |-> 0]

\* raise ValueError / IndexError: the kind of message, the text it quotes,
\* the number it quotes and the upper bound it quotes
Raise(kind, text, v, hi) ==
    [tag |-> "raise", value |-> v, kind |-> kind, text |-> text, hi |-> hi]

Raised(r) == r.tag = "raise"

(***************************************************************************)
(* Python integers: int(), str(), << and |.                                *)
(***************************************************************************)
DigitVal(c) == (CHOOSE k \in 1..Len(DigitChars) : DigitChars[k] = UpperChar(c)) - 1

IsDigit(c, base) ==
    /\ \E k \in 1..Len(DigitChars) : DigitChars[k] = UpperChar(c)
    /\ DigitVal(c) < base

RECURSIVE DigitsValue(_, _)
DigitsValue(s, base) ==
    IF s = <<>> THEN 0
    ELSE DigitsValue(SubSeq(s, 1, Len(s) - 1), base) * base + DigitVal(s[Len(s)])

\* the base prefix int(s, base) accepts: 0x / 0X for 16, 0b / 0B for 2
HasBasePrefix(s, base) ==
    \/ base = 16 /\ (startswith(s, <<"0", "x">>) \/ startswith(s, <<"0", "X">>))
    \/ base = 2 /\ (startswith(s, <<"0", "b">>) \/ startswith(s, <<"0", "B">>))

\* int(s, base) for base 2, 10, 16: optional sign, optional base prefix, then
\* one or more digits of the base; anything else raises ValueError
PyInt(s, base) ==
    LET t == strip(s)
        signed == t # <<>> /\ Head(t) \in {"+", "-"}
        body == IF signed THEN Tail(t) ELSE t
        digits == IF HasBasePrefix(body, base) THEN SubSeq(body, 3, Len(body)) ELSE body
    IN  IF digits # <<>> /\ \A k \in 1..Len(digits) : IsDigit(digits[k], base)
        THEN Return(IF signed /\ Head(t) = "-" THEN 0 - DigitsValue(digits, base)
                    ELSE DigitsValue(digits, base))
        ELSE Raise("invalid literal for int()", s, base, 0)

\* str(n) for n >= 0
RECURSIVE Str(_)
Str(n) == IF n < 10 THEN << DigitChars[n + 1] >>
          ELSE Str(n \div 10) \o << DigitChars[(n % 10) + 1] >>

RECURSIVE Pow2(_)
Pow2(n) == IF n = 0 THEN 1 ELSE 2 * Pow2(n - 1)

\* x << n
Shl(x, n) == x * Pow2(n)

\* a | b on naturals
RECURSIVE BitOrNat(_, _)
BitOrNat(a, b) ==
    IF a = 0 THEN b
    ELSE IF b = 0 THEN a
    ELSE (IF a % 2 = 1 \/ b % 2 = 1 THEN 1 ELSE 0) + 2 * BitOrNat(a \div 2, b \div 2)

\* a & ~b on naturals
RECURSIVE BitAndNot(_, _)
BitAndNot(a, b) ==
    IF a = 0 THEN 0
    ELSE (IF a % 2 = 1 /\ b % 2 = 0 THEN 1 ELSE 0) + 2 * BitAndNot(a \div 2, b \div 2)

\* a & b on naturals
RECURSIVE BitAndNat(_, _)
BitAndNat(a, b) ==
    IF a = 0 \/ b = 0 THEN 0
    ELSE (IF a % 2 = 1 /\ b % 2 = 1 THEN 1 ELSE 0) + 2 * BitAndNat(a \div 2, b \div 2)

\* a | b on Python's unbounded two's-complement integers:
\* a | b = ~(~a & ~b) and ~x = -x - 1
BitOr(a, b) ==
    IF a >= 0 /\ b >= 0 THEN BitOrNat(a, b)
    ELSE IF a >= 0 THEN 0 - BitAndNot(0 - b - 1, a) - 1
    ELSE IF b >= 0 THEN 0 - BitAndNot(0 - a - 1, b) - 1
    ELSE 0 - BitAndNat(0 - a - 1, 0 - b - 1) - 1

(***************************************************************************)
(* Mnemonics, registers and the opcode table.                              *)
(***************************************************************************)
LOADI == << "L", "O", "A", "D", "I" >>
ADD   == << "A", "D", "D" >>
SUB   == << "S", "U", "B" >>
AND   == << "A", "N", "D" >>
OR    == << "O", "R" >>
XOR   == << "X", "O", "R" >>
STORE == << "S", "T", "O", "R", "E" >>
LOAD  == << "L", "O", "A", "D" >>
SHL   == << "S", "H", "L" >>
SHR   == << "S", "H", "R" >>
MOV   == << "M", "O", "V" >>
CMP   == << "C", "M", "P" >>
JUMP  == << "J", "U", "M", "P" >>
JZ    == << "J", "Z" >>
JNZ   == << "J", "N", "Z" >>
NOT   == << "N", "O", "T" >>
HALT  == << "H", "A", "L", "T" >>
PUSH  == << "P", "U", "S", "H" >>
POP   == << "P", "O", "P" >>
MUL   == << "M", "U", "L" >>
DIV   == << "D", "I", "V" >>
IN_   == << "I", "N" >>
OUT   == << "O", "U", "T" >>
RETI  == << "R", "E", "T", "I" >>

\* the marker assemble_line puts in the mnemonic slot of a pure-label line
LABEL == << "L", "A", "B", "E", "L" >>

\* the dict OPCODES, as its (key, value) items in source order
OPCODES ==
    << << LOADI, 0 >>, << ADD, 1 >>, << SUB, 2 >>, << AND, 3 >>, << OR, 4 >>,
       << XOR, 5 >>, << STORE, 6 >>, << LOAD, 7 >>, << SHL, 8 >>, << SHR, 9 >>,
       << MOV, 10 >>, << CMP, 11 >>, << JUMP, 12 >>, << JZ, 13 >>, << JNZ, 14 >>,
       << NOT, 15 >>, << HALT, 15 >>, << PUSH, 14 >>, << POP, 14 >>, << MUL, 13 >>,
       << DIV, 13 >>, << IN_, 14 >>, << OUT, 14 >>, << RETI, 15 >> >>

\* mnemonic in OPCODES
InOpcodes(m) == \E k \in 1..Len(OPCODES) : OPCODES[k][1] = m

\* OPCODES[mnemonic]
Opcode(m) == OPCODES[CHOOSE k \in 1..Len(OPCODES) : OPCODES[k][1] = m][2]

\* the dict REGISTERS: 'R0' .. 'R7' -> 0 .. 7
NumRegisters == 8
RegName(n) == << "R", DigitChars[n + 1] >>
REGISTERS == [n \in 0..(NumRegisters - 1) |-> RegName(n)]

\* s in REGISTERS
InRegisters(s) == \E n \in DOMAIN REGISTERS : REGISTERS[n] = s

\* the largest value of the 6-bit field
Max6 == 63

(***************************************************************************)
(* Operand parsers.                                                        *)
(***************************************************************************)
parse_register(reg_str) ==
    LET s == upper(strip(reg_str))
    IN  IF InRegisters(s)
        THEN Return(CHOOSE n \in DOMAIN REGISTERS : REGISTERS[n] = s)
        ELSE Raise("Invalid register", s, 0, 0)

parse_immediate(imm_str) ==
    LET s == strip(imm_str)
        t == IF startswith(s, << "[" >>) /\ endswith(s, << "]" >>)
             THEN SubSeq(s, 2, Len(s) - 1) ELSE s
    IN  IF startswith(t, << "0", "x" >>) \/ startswith(t, << "0", "X" >>) THEN PyInt(t, 16)
        ELSE IF startswith(t, << "0", "b" >>) \/ startswith(t, << "0", "B" >>) THEN PyInt(t, 2)
        ELSE PyInt(t, 10)

(***************************************************************************)
(* encode_instruction.                                                     *)
(***************************************************************************)
\* self.parse_register(operands[k]), k counted from 1: IndexError past the end
RegisterOperand(operands, k) ==
    IF k > Len(operands) THEN Raise("list index out of range", <<>>, 0, 0)
    ELSE parse_register(operands[k])

\* self.parse_immediate(operands[k]), k counted from 1: IndexError past the end
ImmediateOperand(operands, k) ==
    IF k > Len(operands) THEN Raise("list index out of range", <<>>, 0, 0)
    ELSE parse_immediate(operands[k])

\* (opcode << 12) | (a << 9) | (b << 6) | low
Pack(opcode, a, b, low) ==
    BitOr(BitOr(BitOr(Shl(opcode, 12), Shl(a, 9)), Shl(b, 6)), low)

\* the range check written with >= : the largest 6-bit value is refused
EncodeRegLow6Refuses63(opcode, operands, what) ==
    LET r == RegisterOperand(operands, 1)
        v == ImmediateOperand(operands, 2)
    IN  IF Raised(r) THEN r
        ELSE IF Raised(v) THEN v
        ELSE IF v.value >= Max6 THEN Raise(what, <<>>, v.value, Max6)
        ELSE Return(Pack(opcode, r.value, 0, v.value))

\* the branches "register, then 6-bit value": LOADI, STORE, LOAD, JZ, JNZ
EncodeRegLow6(opcode, operands, what) ==
    LET r == RegisterOperand(operands, 1)
        v == ImmediateOperand(operands, 2)
    IN  IF Raised(r) THEN r
        ELSE IF Raised(v) THEN v
        ELSE IF v.value > Max6 THEN Raise(what, <<>>, v.value, Max6)
        ELSE Return(Pack(opcode, r.value, 0, v.value))

\* Rd and Rs1 packed in each other's field
EncodeThreeRegSwapped(opcode, operands) ==
    LET rd == RegisterOperand(operands, 1)
        rs1 == RegisterOperand(operands, 2)
        rs2 == RegisterOperand(operands, 3)
    IN  IF Raised(rd) THEN rd
        ELSE IF Raised(rs1) THEN rs1
        ELSE IF Raised(rs2) THEN rs2
        ELSE Return(Pack(opcode, rd.value, rs1.value, 0))

\* the branches "Rd, Rs1, Rs2": ADD, SUB and MUL (whose opcode is the literal 0xD)
EncodeThreeReg(opcode, operands) ==
    LET rd == RegisterOperand(operands, 1)
        rs1 == RegisterOperand(operands, 2)
        rs2 == RegisterOperand(operands, 3)
    IN  IF Raised(rd) THEN rd
        ELSE IF Raised(rs1) THEN rs1
        ELSE IF Raised(rs2) THEN rs2
        ELSE Return(Pack(opcode, rs1.value, rd.value, 0))

EncodeJump(opcode, operands) ==
    LET v == ImmediateOperand(operands, 1)
    IN  IF Raised(v) THEN v
        ELSE IF v.value > Max6 THEN Raise("Jump address exceeds 6-bit range", <<>>, v.value, Max6)
        ELSE Return(Pack(opcode, 0, 0, v.value))

EncodePush(operands) ==
    LET rs == RegisterOperand(operands, 1)
    IN  IF Raised(rs) THEN rs ELSE Return(Pack(14, rs.value, 0, 0))

\* POP without its reg2 = 001 marker: the same word as PUSH
EncodePopAsPush(operands) ==
    LET rd == RegisterOperand(operands, 1)
    IN  IF Raised(rd) THEN rd ELSE Return(Pack(14, rd.value, 0, 0))

EncodePop(operands) ==
    LET rd == RegisterOperand(operands, 1)
    IN  IF Raised(rd) THEN rd ELSE Return(Pack(14, rd.value, 1, 0))

\* raise ValueError(f"Unknown instruction: {mnemonic}")
UnknownInstruction(mnemonic) == Raise("Unknown instruction", mnemonic, 0, 0)

\* the final else raising the same error as an unknown mnemonic
NotImplementedAsUnknown(mnemonic) == Raise("Unknown instruction", mnemonic, 0, 0)

\* raise ValueError(f"Instruction encoding not implemented: {mnemonic}")
NotImplemented(mnemonic) == Raise("Instruction encoding not implemented", mnemonic, 0, 0)

encode_instruction(mnemonic0, operands) ==
    LET mnemonic == upper(mnemonic0)
    IN  IF ~InOpcodes(mnemonic) THEN UnknownInstruction(mnemonic)
        ELSE IF mnemonic = LOADI
             THEN EncodeRegLow6(Opcode(mnemonic), operands, "Immediate value exceeds 6-bit range")
        ELSE IF mnemonic = ADD THEN EncodeThreeReg(Opcode(mnemonic), operands)
        ELSE IF mnemonic = SUB THEN EncodeThreeReg(Opcode(mnemonic), operands)
        ELSE IF mnemonic = STORE
             THEN EncodeRegLow6(Opcode(mnemonic), operands, "Address exceeds 6-bit range")
        ELSE IF mnemonic = LOAD
             THEN EncodeRegLow6(Opcode(mnemonic), operands, "Address exceeds 6-bit range")
        ELSE IF mnemonic = JUMP THEN EncodeJump(Opcode(mnemonic), operands)
        ELSE IF mnemonic = JZ
             THEN EncodeRegLow6(Opcode(mnemonic), operands, "Jump address exceeds 6-bit range")
        ELSE IF mnemonic = JNZ
             THEN EncodeRegLow6(Opcode(mnemonic), operands, "Jump address exceeds 6-bit range")
        ELSE IF mnemonic = PUSH THEN EncodePush(operands)
        ELSE IF mnemonic = POP THEN EncodePop(operands)
        ELSE IF mnemonic = MUL THEN EncodeThreeReg(13, operands)
        ELSE IF mnemonic = HALT THEN Return(61440)
        ELSE IF mnemonic = RETI THEN Return(61441)
        ELSE NotImplemented(mnemonic)

(***************************************************************************)
(* assemble_line.                                                          *)
(***************************************************************************)
\* the three shapes of the result: None, ('LABEL', [label], None) and
\* (mnemonic, operands, label); label <<>> stands for None and for ''
None == [none |-> TRUE, mnemonic |-> <<>>, operands |-> <<>>, label |-> <<>>]

Parsed(mnemonic, operands, label) ==
    [none |-> FALSE, mnemonic |-> mnemonic, operands |-> operands, label |-> label]

\* the part of assemble_line after the label: re.split, upper, the operand list
ParseInstruction(line, label) ==
    LET parts == re_split(line)
    IN  Parsed(upper(parts[1]), NonEmpty(Tail(parts)), label)

assemble_line(line0) ==
    LET line == strip(split(line0, ";")[1])
    IN  IF line = <<>> THEN None
        ELSE IF Contains(line, ":")
        THEN LET parts == split1(line, ":")
                 label == strip(parts[1])
                 rest == strip(parts[2])
             IN  IF rest = <<>> THEN Parsed(LABEL, << label >>, <<>>)
                 ELSE ParseInstruction(rest, label)
        ELSE ParseInstruction(line, <<>>)

(***************************************************************************)
(* Source texts.                                                           *)
(***************************************************************************)
RECURSIVE Join(_, _)
Join(parts, sep) ==
    IF parts = <<>> THEN <<>>
    ELSE IF Len(parts) = 1 THEN parts[1]
    ELSE parts[1] \o sep \o Join(Tail(parts), sep)

\* "MNEMONIC op1, op2, ..."
Stmt(mnemonic, operands) ==
    IF operands = <<>> THEN mnemonic ELSE mnemonic \o << " " >> \o Join(operands, << ",", " " >>)

\* "label:" and "label: statement"
LabelLine(label) == label \o << ":" >>
Labelled(label, text) == label \o << ":", " " >> \o text

START == << "S", "T", "A", "R", "T" >>
L     == << "L" >>
FOO   == << "F", "O", "O" >>
LowerLoad == << "l", "o", "a", "d" >>
LowerR2 == << "r", "2" >>
BracketHex1F == << "[", "0", "x", "1", "F", "]" >>
Minus1 == << "-", "1" >>

\* the lines the bounded sources are made of
Catalog ==
    { <<>>,                                          \* blank line
      << " ", ";", " ", "c" >>,                      \* comment only
      LabelLine(START),                              \* pure label
      Labelled(L, HALT),                             \* label sharing a line
      Stmt(JUMP, << START >>),
      Stmt(JZ, << RegName(1), L >>),
      Stmt(LOADI, << RegName(0), Str(5) >>),
      Stmt(ADD, << RegName(2), RegName(0), RegName(1) >>),
      Stmt(FOO, << RegName(0) >>),                   \* not in the opcode table
      Stmt(AND, << RegName(0), RegName(1), RegName(2) >>),  \* no encoding rule
      Stmt(LOADI, << RegName(0), Str(Max6 + 1) >>),  \* above the 6-bit range
      Stmt(LOADI, << RegName(0), Minus1 >>),         \* below the 6-bit range
      Stmt(LOADI, << RegName(0) >>),                 \* missing operand
      Stmt(LABEL, << RegName(0) >>),                 \* mnemonic spelled LABEL
      Labelled(RegName(1), HALT),                    \* label spelled like a register
      Stmt(LowerLoad, << LowerR2, BracketHex1F >>) } \* lower case, brackets, hex

\* the end-to-end scenario
EndToEnd ==
    << LabelLine(START),
       Stmt(LOADI, << RegName(0), Str(5) >>),
       Stmt(LOADI, << RegName(1), Str(10) >>),
       Stmt(ADD, << RegName(2), RegName(0), RegName(1) >>),
       Stmt(JUMP, << START >>),
       HALT >>

Sources ==
    { Join(ls, << "\n" >>) : ls \in UNION { [1..n -> Catalog] : n \in 1..MaxLines } }
        \cup { Join(EndToEnd, << "\n" >>) }

(***************************************************************************)
(* The assembler: state.                                                   *)
(***************************************************************************)
VARIABLES
    labels,        \* self.labels: label -> address
    lines,         \* assemble: lines = source.split('\n')
    pc,            \* "new", "pass1", "pass2", "returned" or "raised"
    idx,           \* position of the running for loop in lines
    address,       \* assemble: the local address
    instructions,  \* assemble: the local list of (address, word)
    result,        \* what assemble returned or raised
    call,          \* a direct call of encode_instruction: its arguments
    ret,           \* a direct call of encode_instruction: its result
    argv,          \* main: sys.argv[1:]
    fs,            \* main: the files, path -> content
    stdout,        \* main: what was printed
    stderr,        \* main: what was printed to sys.stderr
    exit_code,     \* main: the exit status of the process, once it has one
    mainpc,        \* main: its control position
    comp_source,   \* AdvancedCompiler.compile: the source text
    program,       \* AdvancedCompiler.compile: the local list instructions
    symbols,       \* AdvancedCompiler.symbols
    stage          \* AdvancedCompiler.compile: its control position

mainVars == << argv, fs, stdout, stderr, exit_code, mainpc >>
compVars == << comp_source, program, symbols, stage >>

vars == << labels, lines, pc, idx, address, instructions, result, call, ret,
           mainVars, compVars >>

\* no process is running main
MainIdle ==
    /\ argv = <<>>
    /\ fs = <<>>
    /\ stdout = <<>>
    /\ stderr = <<>>
    /\ exit_code = -1
    /\ mainpc = "none"

\* no AdvancedCompiler is at work
CompIdle ==
    /\ comp_source = <<>>
    /\ program = <<>>
    /\ symbols = <<>>
    /\ stage = "none"

NoResult == [tag |-> "none", value |-> <<>>, address |-> 0, cause |-> Return(0)]
NoCall == [mnemonic |-> <<>>, operands |-> <<>>]
NoRet == [tag |-> "none", value |-> 0, kind |-> "", text |-> <<>>, hi |-> 0]

\* Assembler.__init__ ; no call made yet
Init ==
    /\ labels = <<>>
    /\ lines = <<>>
    /\ pc = "new"
    /\ idx = 0
    /\ address = 0
    /\ instructions = <<>>
    /\ result = NoResult
    /\ call = NoCall
    /\ ret = NoRet
    /\ MainIdle
    /\ CompIdle

\* self.labels[label] = address
Bind(tbl, label, addr) ==
    [k \in (DOMAIN tbl) \cup {label} |-> IF k = label THEN addr ELSE tbl[k]]

\* for i, op in enumerate(operands): if op in self.labels: operands[i] = str(...)
Substitute(operands, tbl) ==
    [k \in 1..Len(operands) |->
        IF operands[k] \in DOMAIN tbl THEN Str(tbl[operands[k]]) ELSE operands[k]]

(***************************************************************************)
(* assemble, one loop iteration per step.                                  *)
(***************************************************************************)
\* assemble(source) is called: split into lines, start the first pass
Assemble(source) ==
    /\ pc = "new"
    /\ lines' = split(source, "\n")
    /\ address' = 0
    /\ idx' = 1
    /\ pc' = "pass1"
    /\ UNCHANGED << labels, instructions, result, call, ret, mainVars, compVars >>

\* the address counter advanced on every parsed line, pure labels included
NextAddressCountsLabels(parsed, addr) ==
    IF ~parsed.none THEN addr + 1 ELSE addr

\* if mnemonic != 'LABEL': address += 1
NextAddress(parsed, addr) ==
    IF ~parsed.none /\ parsed.mnemonic # LABEL THEN addr + 1 ELSE addr

\* if label: self.labels[label] = address
NextLabels(parsed, tbl, addr) ==
    IF ~parsed.none /\ parsed.label # <<>> THEN Bind(tbl, parsed.label, addr) ELSE tbl

\* one iteration of the first loop
FirstPassLine ==
    /\ pc = "pass1"
    /\ idx <= Len(lines)
    /\ LET parsed == assemble_line(lines[idx])
       IN  /\ labels' = NextLabels(parsed, labels, address)
           /\ address' = NextAddress(parsed, address)
    /\ idx' = idx + 1
    /\ UNCHANGED << lines, pc, instructions, result, call, ret, mainVars, compVars >>

\* the second loop started before the first has seen every line
StartSecondPassEarly ==
    /\ pc = "pass1"
    /\ address' = 0
    /\ instructions' = <<>>
    /\ idx' = 1
    /\ pc' = "pass2"
    /\ UNCHANGED << labels, lines, result, call, ret, mainVars, compVars >>

\* the first loop is over: address = 0, instructions = [], start the second
StartSecondPass ==
    /\ pc = "pass1"
    /\ idx > Len(lines)
    /\ address' = 0
    /\ instructions' = <<>>
    /\ idx' = 1
    /\ pc' = "pass2"
    /\ UNCHANGED << labels, lines, result, call, ret, mainVars, compVars >>

\* one iteration of the second loop
SecondPassLine ==
    /\ pc = "pass2"
    /\ idx <= Len(lines)
    /\ LET parsed == assemble_line(lines[idx])
           word == encode_instruction(parsed.mnemonic, Substitute(parsed.operands, labels))
       IN  IF parsed.none \/ parsed.mnemonic = LABEL
           THEN /\ idx' = idx + 1
                /\ UNCHANGED << pc, address, instructions, result >>
           ELSE IF Raised(word)
           THEN /\ pc' = "raised"
                /\ result' = [tag |-> "raise", value |-> <<>>,
                              address |-> address, cause |-> word]
                /\ UNCHANGED << idx, address, instructions >>
           ELSE /\ instructions' = Append(instructions, << address, word.value >>)
                /\ address' = address + 1
                /\ idx' = idx + 1
                /\ UNCHANGED << pc, result >>
    /\ UNCHANGED << labels, lines, call, ret, mainVars, compVars >>

\* return instructions
ReturnInstructions ==
    /\ pc = "pass2"
    /\ idx > Len(lines)
    /\ pc' = "returned"
    /\ result' = [tag |-> "return", value |-> instructions,
                  address |-> 0, cause |-> Return(0)]
    /\ UNCHANGED << labels, lines, idx, address, instructions, call, ret, mainVars, compVars >>

\* a caller passes some source text to a new Assembler
Call ==
    /\ pc = "new"
    /\ \E source \in Sources : Assemble(source)

Next ==
    \/ Call
    \/ FirstPassLine
    \/ StartSecondPass
    \/ SecondPassLine
    \/ ReturnInstructions

Spec == Init /\ [][Next]_vars

(***************************************************************************)
(* assemble as a function: what a call returns or raises when it runs to   *)
(* its end on an Assembler whose symbol table is tbl.                      *)
(***************************************************************************)
\* the first loop from line k on: the symbol table it leaves
RECURSIVE first_pass(_, _, _, _)
first_pass(ls, k, tbl, addr) ==
    IF k > Len(ls) THEN tbl
    ELSE first_pass(ls, k + 1, NextLabels(assemble_line(ls[k]), tbl, addr),
                    NextAddress(assemble_line(ls[k]), addr))

\* the second loop from line k on: the list returned or the error raised
RECURSIVE second_pass(_, _, _, _, _)
second_pass(ls, k, tbl, addr, instrs) ==
    IF k > Len(ls)
    THEN [tag |-> "return", value |-> instrs, address |-> 0, cause |-> Return(0)]
    ELSE LET parsed == assemble_line(ls[k])
             word == encode_instruction(parsed.mnemonic, Substitute(parsed.operands, tbl))
         IN  IF parsed.none \/ parsed.mnemonic = LABEL
             THEN second_pass(ls, k + 1, tbl, addr, instrs)
             ELSE IF Raised(word)
             THEN [tag |-> "raise", value |-> <<>>, address |-> addr, cause |-> word]
             ELSE second_pass(ls, k + 1, tbl, addr + 1, Append(instrs, << addr, word.value >>))

assemble(ls, tbl) == second_pass(ls, 1, first_pass(ls, 1, tbl, 0), 0, <<>>)

(***************************************************************************)
(* One Assembler object used for several assemble calls in a row.          *)
(***************************************************************************)
MaxReuseLines == 2

ReuseCatalog ==
    { <<>>,
      Stmt(HALT, <<>>),
      Labelled(L, HALT),
      Stmt(JZ, << RegName(1), L >>),
      Stmt(JUMP, << L >>) }

ReuseSources ==
    { Join(ls, << "\n" >>) : ls \in UNION { [1..n -> ReuseCatalog] : n \in 1..MaxReuseLines } }

\* the first assemble call on the new object
FirstCall ==
    /\ pc = "new"
    /\ \E source \in ReuseSources : Assemble(source)

\* assemble(source) is called again on the same object, after a call has
\* returned or raised: self.labels is what that call left
Reuse ==
    /\ pc \in {"returned", "raised"}
    /\ \E source \in ReuseSources : lines' = split(source, "\n")
    /\ address' = 0
    /\ idx' = 1
    /\ pc' = "pass1"
    /\ instructions' = <<>>
    /\ result' = NoResult
    /\ UNCHANGED << labels, call, ret, mainVars, compVars >>

NextReuse ==
    \/ FirstCall
    \/ Reuse
    \/ FirstPassLine
    \/ StartSecondPass
    \/ SecondPassLine
    \/ ReturnInstructions

SpecReuse == Init /\ [][NextReuse]_vars

(***************************************************************************)
(* format_verilog and main: the command line, the files, the two streams   *)
(* and the exit status.                                                    *)
(***************************************************************************)
MaxFileLines == 2

\* digits of n >= 0 in the given base, upper case
RECURSIVE Digits(_, _)
Digits(n, base) ==
    IF n < base THEN << DigitChars[n + 1] >>
    ELSE Digits(n \div base, base) \o << DigitChars[(n % base) + 1] >>

\* format(n, '0<width>X') and format(n, '0<width>b'): the sign first, then
\* zeros up to the width, then the digits
ZeroPadded(n, base, width) ==
    LET sign == IF n < 0 THEN << "-" >> ELSE <<>>
        digits == Digits(IF n < 0 THEN 0 - n ELSE n, base)
        pad == width - Len(sign) - Len(digits)
    IN  sign \o [k \in 1..(IF pad > 0 THEN pad ELSE 0) |-> "0"] \o digits

\* format(n, '<width>d') for n >= 0: spaces up to the width, then the digits
SpacePadded(n, width) ==
    LET digits == Digits(n, 10)
        pad == width - Len(digits)
    IN  [k \in 1..(IF pad > 0 THEN pad ELSE 0) |-> " "] \o digits

VerilogHeader1 ==
    << " ", " ", " ", " ", "/", "/", " ", "I", "n", "i", "t", "i", "a",
       "l", "i", "z", "e", " ", "a", "l", "l", " ", "m", "e", "m", "o",
       "r", "y", " ", "t", "o", " ", "0" >>

VerilogHeader2 ==
    << " ", " ", " ", " ", "f", "o", "r", " ", "(", "i", " ", "=", " ",
       "0", ";", " ", "i", " ", "<", " ", "2", "5", "6", ";", " ", "i",
       " ", "=", " ", "i", " ", "+", " ", "1", ")", " ", "b", "e", "g",
       "i", "n" >>

VerilogHeader3 ==
    << " ", " ", " ", " ", " ", " ", " ", " ", "m", "e", "m", "o", "r",
       "y", "[", "i", "]", " ", "=", " ", "1", "6", "'", "b", "0", "0",
       "0", "0", "0", "0", "0", "0", "0", "0", "0", "0", "0", "0", "0",
       "0", ";" >>

VerilogHeader4 ==
    << " ", " ", " ", " ", "e", "n", "d" >>

VerilogHeader5 ==
    << " ", " ", " ", " ", "/", "/", " ", "P", "r", "o", "g", "r", "a",
       "m", " ", "i", "n", "s", "t", "r", "u", "c", "t", "i", "o", "n",
       "s" >>

\* f"    memory[{addr}] = 16'h{inst:04X};"
MemoryLine(addr, inst) ==
    << " ", " ", " ", " ", "m", "e", "m", "o", "r", "y", "[" >> \o Str(addr)
        \o << "]", " ", "=", " ", "1", "6", "'", "h" >> \o ZeroPadded(inst, 16, 4)
        \o << ";" >>

format_verilog(instrs) ==
    Join(<< VerilogHeader1, VerilogHeader2, VerilogHeader3, VerilogHeader4, <<>>,
            VerilogHeader5 >>
         \o [k \in 1..Len(instrs) |-> MemoryLine(instrs[k][1], instrs[k][2])],
         << "\n" >>)

UsageLine ==
    << "U", "s", "a", "g", "e", ":", " ", "a", "s", "s", "e", "m", "b",
       "l", "e", "r", ".", "p", "y", " ", "<", "i", "n", "p", "u", "t",
       ".", "a", "s", "m", ">", " ", "[", "o", "u", "t", "p", "u", "t",
       ".", "v", "]" >>

ListingHeader ==
    << "A", "s", "s", "e", "m", "b", "l", "e", "d", " ", "i", "n", "s",
       "t", "r", "u", "c", "t", "i", "o", "n", "s", ":" >>

\* f"Assembled {len(instructions)} instructions to {output_file}"
AssembledLine(instrs, output_file) ==
    << "A", "s", "s", "e", "m", "b", "l", "e", "d", " " >> \o Str(Len(instrs))
        \o << " ", "i", "n", "s", "t", "r", "u", "c", "t", "i", "o", "n", "s", " ",
              "t", "o", " " >> \o output_file

\* f"  {addr:3d}: 0x{inst:04X} ({inst:016b})"
ListingLine(addr, inst) ==
    << " ", " " >> \o SpacePadded(addr, 3) \o << ":", " ", "0", "x" >>
        \o ZeroPadded(inst, 16, 4) \o << " ", "(" >> \o ZeroPadded(inst, 2, 16)
        \o << ")" >>

\* print(f"Error: {e}", file=sys.stderr), e kept as the exception it renders
ErrorLine(e) == [text |-> "Error: {e}", e |-> e]

\* the names on the command line and the files they may name at the start
ProgName == << "a", "s", "m" >>
InputName == << "i", "n" >>
OutputName == << "o", "u", "t" >>
OldText == << "o", "l", "d" >>

Argvs ==
    { << ProgName >>,
      << ProgName, InputName >>,
      << ProgName, InputName, OutputName >>,
      << ProgName, InputName, InputName >> }

MainCatalog ==
    { <<>>,
      Labelled(L, HALT),
      Stmt(JZ, << RegName(1), L >>),
      Stmt(LOADI, << RegName(0), Str(5) >>),
      Stmt(FOO, << RegName(0) >>),
      Stmt(LOADI, << RegName(0), Minus1 >>) }

MainSources ==
    { Join(ls, << "\n" >>) : ls \in UNION { [1..n -> MainCatalog] : n \in 1..MaxFileLines } }

\* a path: does a file exist there, can it be opened for writing, its text
File(exists, writable, text) == [exists |-> exists, writable |-> writable, text |-> text]

InputFiles == { File(FALSE, TRUE, <<>>) } \cup { File(TRUE, TRUE, s) : s \in MainSources }

OutputFiles ==
    { File(FALSE, w, <<>>) : w \in BOOLEAN } \cup { File(TRUE, w, OldText) : w \in BOOLEAN }

FileSystems ==
    { (InputName :> i) @@ (OutputName :> o) : i \in InputFiles, o \in OutputFiles }

\* the process starts: nothing printed, no Assembler yet in use
InitMain ==
    /\ labels = <<>>
    /\ lines = <<>>
    /\ pc = "new"
    /\ idx = 0
    /\ address = 0
    /\ instructions = <<>>
    /\ result = NoResult
    /\ call = NoCall
    /\ ret = NoRet
    /\ argv \in Argvs
    /\ fs \in FileSystems
    /\ stdout = <<>>
    /\ stderr = <<>>
    /\ exit_code = -1
    /\ mainpc = "start"
    /\ CompIdle

asmVars == << labels, lines, pc, idx, address, instructions, result, call, ret >>

\* if len(sys.argv) < 2: print usage, sys.exit(1)
MainUsage ==
    /\ mainpc = "start"
    /\ Len(argv) < 2
    /\ stdout' = Append(stdout, UsageLine)
    /\ exit_code' = 1
    /\ mainpc' = "exited"
    /\ UNCHANGED << asmVars, argv, fs, stderr, compVars >>

\* except Exception as e: print the message to stderr, sys.exit(1)
Except(e) ==
    /\ stderr' = Append(stderr, ErrorLine(e))
    /\ exit_code' = 1
    /\ mainpc' = "exited"
    /\ UNCHANGED << asmVars, argv, fs, stdout, compVars >>

\* open(input_file, 'r') raises FileNotFoundError
MainReadFails ==
    /\ mainpc = "start"
    /\ Len(argv) >= 2
    /\ ~fs[argv[2]].exists
    /\ Except(Raise("No such file or directory", argv[2], 2, 0))

\* source = f.read(); assembler = Assembler(); assembler.assemble(source) starts
MainAssemble ==
    /\ mainpc = "start"
    /\ Len(argv) >= 2
    /\ fs[argv[2]].exists
    /\ Assemble(fs[argv[2]].text)

\* assemble raised: the except clause
MainAssembleFails ==
    /\ mainpc = "start"
    /\ pc = "raised"
    /\ Except(result)

\* the output file is opened and written while assemble is still at work
MainWriteOutputEarly ==
    /\ mainpc = "start"
    /\ pc \in {"pass2", "returned"}
    /\ Len(argv) > 2
    /\ fs[argv[3]].writable
    /\ fs' = [fs EXCEPT ![argv[3]] = File(TRUE, TRUE, format_verilog(instructions))]
    /\ stdout' = Append(stdout, AssembledLine(instructions, argv[3]))
    /\ exit_code' = 0
    /\ mainpc' = "exited"
    /\ UNCHANGED << asmVars, argv, stderr, compVars >>

\* assemble returned and an output file is named: format_verilog, open it
\* for writing, write the text, print the summary, return from main
MainWriteOutput ==
    /\ mainpc = "start"
    /\ pc = "returned"
    /\ Len(argv) > 2
    /\ fs[argv[3]].writable
    /\ fs' = [fs EXCEPT ![argv[3]] = File(TRUE, TRUE, format_verilog(result.value))]
    /\ stdout' = Append(stdout, AssembledLine(result.value, argv[3]))
    /\ exit_code' = 0
    /\ mainpc' = "exited"
    /\ UNCHANGED << asmVars, argv, stderr, compVars >>

\* assemble returned but open(output_file, 'w') raises PermissionError
MainWriteFails ==
    /\ mainpc = "start"
    /\ pc = "returned"
    /\ Len(argv) > 2
    /\ ~fs[argv[3]].writable
    /\ Except(Raise("Permission denied", argv[3], 13, 0))

\* assemble returned and no output file is named: print the listing
MainPrintListing ==
    /\ mainpc = "start"
    /\ pc = "returned"
    /\ Len(argv) = 2
    /\ stdout' = stdout \o << ListingHeader >>
                   \o [k \in 1..Len(result.value) |->
                          ListingLine(result.value[k][1], result.value[k][2])]
    /\ exit_code' = 0
    /\ mainpc' = "exited"
    /\ UNCHANGED << asmVars, argv, fs, stderr, compVars >>

NextMain ==
    \/ MainUsage
    \/ MainReadFails
    \/ MainAssemble
    \/ FirstPassLine
    \/ StartSecondPass
    \/ SecondPassLine
    \/ ReturnInstructions
    \/ MainAssembleFails
    \/ MainWriteOutput
    \/ MainWriteFails
    \/ MainPrintListing

SpecMain == InitMain /\ [][NextMain]_vars

(***************************************************************************)
(* AdvancedCompiler: parse, the two label collections and the passes of    *)
(* optimize between them.                                                  *)
(***************************************************************************)
MaxCompLines == 3

\* one element of the list parse builds: (mnemonic, operands, label), with
\* the label None written <<>>
Entry(mnemonic, operands, label) ==
    [mnemonic |-> mnemonic, operands |-> operands, label |-> label]

\* the body of the loop of parse: the entries one line appends
ParseLine(line0) ==
    LET line == strip(split(line0, ";")[1])
    IN  IF line = <<>> THEN <<>>
        ELSE LET labelled == Contains(line, ":")
                 label == IF labelled THEN strip(split1(line, ":")[1]) ELSE <<>>
                 rest == IF labelled THEN strip(split1(line, ":")[2]) ELSE line
                 parts == re_split(rest)
             IN  IF labelled /\ rest = <<>> THEN << Entry(LABEL, <<>>, label) >>
                 ELSE << Entry(upper(parts[1]), NonEmpty(Tail(parts)), <<>>) >>

RECURSIVE ParseLines(_)
ParseLines(ls) ==
    IF ls = <<>> THEN <<>> ELSE ParseLine(Head(ls)) \o ParseLines(Tail(ls))

parse(source) == ParseLines(split(source, "\n"))

\* for mnemonic, operands, label in instructions: bind the label, count
RECURSIVE CollectLabels(_, _, _, _)
CollectLabels(entries, k, tbl, addr) ==
    IF k > Len(entries) THEN tbl
    ELSE CollectLabels(entries, k + 1,
                       IF entries[k].label # <<>> THEN Bind(tbl, entries[k].label, addr)
                       ELSE tbl,
                       IF entries[k].mnemonic # LABEL THEN addr + 1 ELSE addr)

\* ADD rd, a, b with two decimal literals whose sum is in 0..63 -> LOADI rd, a+b
FoldEntry(entry) ==
    IF entry.mnemonic = ADD /\ Len(entry.operands) = 3
    THEN LET op1 == PyInt(entry.operands[2], 10)
             op2 == PyInt(entry.operands[3], 10)
         IN  IF ~Raised(op1) /\ ~Raised(op2)
                /\ 0 <= op1.value + op2.value /\ op1.value + op2.value <= Max6
             THEN Entry(LOADI, << entry.operands[1], Str(op1.value + op2.value) >>, <<>>)
             ELSE entry
    ELSE entry

constant_folding(entries) == [k \in 1..Len(entries) |-> FoldEntry(entries[k])]

\* the labels named by operands[0] of a JUMP, JZ or JNZ and bound in self.symbols
referenced_labels(entries, syms) ==
    { entries[k].operands[1] :
        k \in { j \in 1..Len(entries) : /\ entries[j].mnemonic \in { JUMP, JZ, JNZ }
                                        /\ entries[j].operands # <<>>
                                        /\ entries[j].operands[1] \in DOMAIN syms } }

dead_code_elimination(entries, syms) ==
    SelectSeq(entries,
              LAMBDA e : e.mnemonic = LABEL =>
                            (e.label \in referenced_labels(entries, syms) \/ e.label = START))

\* placeholder in the code: the list itself
register_allocation(entries) == entries

\* copies the list entry by entry
instruction_scheduling(entries) == [k \in 1..Len(entries) |-> entries[k]]

CompCatalog ==
    { <<>>,
      LabelLine(L),
      LabelLine(START),
      Labelled(L, HALT),
      Stmt(HALT, <<>>),
      Stmt(JUMP, << L >>),
      Stmt(JZ, << RegName(1), L >>),
      Stmt(ADD, << RegName(1), Str(5), Str(10) >>),
      Stmt(ADD, << RegName(1), Str(40), Str(30) >>),
      Stmt(ADD, << RegName(2), RegName(0), RegName(1) >>) }

CompSources ==
    { Join(ls, << "\n" >>) : ls \in UNION { [1..n -> CompCatalog] : n \in 1..MaxCompLines } }

\* compile(source) on a new AdvancedCompiler: parse and the first collection
Compile ==
    /\ stage = "none"
    /\ \E source \in CompSources :
          /\ comp_source' = source
          /\ program' = parse(source)
          /\ symbols' = CollectLabels(parse(source), 1, symbols, 0)
    /\ stage' = "collected"
    /\ UNCHANGED << asmVars, mainVars >>

\* optimize, one pass per step, in the order of optimize
ConstantFolding ==
    /\ stage = "collected"
    /\ program' = constant_folding(program)
    /\ stage' = "folded"
    /\ UNCHANGED << asmVars, mainVars, comp_source, symbols >>

DeadCodeElimination ==
    /\ stage = "folded"
    /\ program' = dead_code_elimination(program, symbols)
    /\ stage' = "eliminated"
    /\ UNCHANGED << asmVars, mainVars, comp_source, symbols >>

RegisterAllocation ==
    /\ stage = "eliminated"
    /\ program' = register_allocation(program)
    /\ stage' = "allocated"
    /\ UNCHANGED << asmVars, mainVars, comp_source, symbols >>

InstructionScheduling ==
    /\ stage = "allocated"
    /\ program' = instruction_scheduling(program)
    /\ stage' = "scheduled"
    /\ UNCHANGED << asmVars, mainVars, comp_source, symbols >>

\* self.symbols = {}, the second collection, return instructions
Recollect ==
    /\ stage = "scheduled"
    /\ symbols' = CollectLabels(program, 1, <<>>, 0)
    /\ stage' = "done"
    /\ UNCHANGED << asmVars, mainVars, comp_source, program >>

NextCompile ==
    \/ Compile
    \/ ConstantFolding
    \/ DeadCodeElimination
    \/ RegisterAllocation
    \/ InstructionScheduling
    \/ Recollect

SpecCompile == Init /\ [][NextCompile]_vars

(***************************************************************************)
(* encode_instruction called directly, on one argument list.               *)
(***************************************************************************)
LowerAdd == << "a", "d", "d" >>
Hex1F == << "0", "x", "1", "F" >>
Bin101 == << "0", "b", "1", "0", "1" >>
Bracket5 == << "[", "5", "]" >>

EncRegisters == { RegName(n) : n \in 0..(NumRegisters - 1) }

EncValues ==
    { Str(n) : n \in 0..MaxImm }
        \cup { Minus1, << "-" >> \o Str(Max6 + 1), Hex1F, Bin101, Bracket5, START }

EncMnemonics == { OPCODES[k][1] : k \in 1..Len(OPCODES) } \cup { FOO, LABEL, LowerAdd }

EncOperands ==
    UNION { [1..n -> EncRegisters] : n \in 0..3 }
        \cup { << r, v >> : r \in EncRegisters, v \in EncValues }
        \cup { << v >> : v \in EncValues }

InitEnc ==
    /\ labels = <<>>
    /\ lines = <<>>
    /\ pc = "new"
    /\ idx = 0
    /\ address = 0
    /\ instructions = <<>>
    /\ result = NoResult
    /\ call \in [mnemonic : EncMnemonics, operands : EncOperands]
    /\ ret = NoRet
    /\ MainIdle
    /\ CompIdle

Encode ==
    /\ ret = NoRet
    /\ ret' = encode_instruction(call.mnemonic, call.operands)
    /\ UNCHANGED << labels, lines, pc, idx, address, instructions, result, call,
                    mainVars, compVars >>

NextEnc == Encode

SpecEnc == InitEnc /\ [][NextEnc]_vars

(***************************************************************************)
(* The vocabulary of the properties, read off the source text: what a      *)
(* line is, independently of what assemble_line makes of it.               *)
(***************************************************************************)
\* the line without its comment and surrounding white space
Code(line) == strip(split(line, ";")[1])

IsBlank(line) == Code(line) = <<>>

\* the line starts with "label:"
DefinesLabel(line) == Contains(Code(line), ":") /\ strip(split1(Code(line), ":")[1]) # <<>>
LabelOf(line) == strip(split1(Code(line), ":")[1])

\* nothing follows the colon
IsPureLabel(line) == Contains(Code(line), ":") /\ strip(split1(Code(line), ":")[2]) = <<>>

\* a non-label statement: there is a mnemonic on the line
IsStatement(line) == ~IsBlank(line) /\ ~IsPureLabel(line)

StatementsBefore(ls, k) == Cardinality({ j \in 1..(k - 1) : IsStatement(ls[j]) })
NumStatements(ls) == StatementsBefore(ls, Len(ls) + 1)

\* the line of the n-th statement, n = 1, 2, ...
StatementLine(ls, n) ==
    CHOOSE k \in 1..Len(ls) : IsStatement(ls[k]) /\ StatementsBefore(ls, k) = n - 1

\* the run is over
Finished == pc \in {"returned", "raised"}

\* what the encoder makes of the statement on line k under the symbol table
Encoding(ls, k, tbl) ==
    encode_instruction(assemble_line(ls[k]).mnemonic,
                       Substitute(assemble_line(ls[k]).operands, tbl))

(***************************************************************************)
(* C1: assembling the end-to-end scenario succeeds, leaves the symbol      *)
(* table {START: 0} and returns (0, 0x0005), (1, 0x020A), (2, 0x1080),     *)
(* (3, 0xC000), (4, 0xF000).                                               *)
(***************************************************************************)
C1_EndToEnd ==
    (lines = EndToEnd /\ Finished) =>
        /\ pc = "returned"
        /\ DOMAIN labels = { START }
        /\ labels[START] = 0
        /\ result.value = << << 0, 5 >>, << 1, 522 >>, << 2, 4224 >>,
                             << 3, 49152 >>, << 4, 61440 >> >>

(***************************************************************************)
(* C2: after pass 1 every label defined in the program, alone on its line  *)
(* or sharing it with an instruction, is bound to the number of non-label  *)
(* statements before its definition line, and a JUMP / JZ / JNZ naming it  *)
(* is encoded with that address in bits[5:0].                              *)
(***************************************************************************)
IsJump(line) == IsStatement(line) /\ assemble_line(line).mnemonic \in { JUMP, JZ, JNZ }

JumpTarget(line) ==
    LET operands == assemble_line(line).operands
    IN  IF operands = <<>> THEN <<>> ELSE operands[Len(operands)]

C2_LabelsResolve ==
    pc \in {"pass2", "returned", "raised"} =>
        \A k \in 1..Len(lines) :
            DefinesLabel(lines[k]) =>
                /\ LabelOf(lines[k]) \in DOMAIN labels
                /\ labels[LabelOf(lines[k])] = StatementsBefore(lines, k)
                /\ pc = "returned" =>
                       \A j \in 1..Len(lines) :
                           (IsJump(lines[j]) /\ JumpTarget(lines[j]) = LabelOf(lines[k])) =>
                               /\ StatementsBefore(lines, j) < Len(result.value)
                               /\ result.value[StatementsBefore(lines, j) + 1][2] % 64
                                      = StatementsBefore(lines, k)

(***************************************************************************)
(* C3: a program with N non-label statements, all of which encode,         *)
(* assembles to exactly N (address, word) pairs with addresses 0 .. N-1 in *)
(* source order, whatever pure-label, blank and comment lines it has; the  *)
(* address counter moves by one on a non-label statement and not at all on *)
(* any other line.                                                         *)
(***************************************************************************)
\* every statement names an instruction of the opcode table (as it must, to encode)
MnemonicsKnown(ls) ==
    \A k \in 1..Len(ls) : IsStatement(ls[k]) => InOpcodes(assemble_line(ls[k]).mnemonic)

C3_Returned ==
    (pc = "returned" /\ MnemonicsKnown(lines)) =>
        /\ Len(result.value) = NumStatements(lines)
        /\ \A n \in 1..Len(result.value) :
               /\ result.value[n][1] = n - 1
               /\ result.value[n][2] = Encoding(lines, StatementLine(lines, n), labels).value

C3_Counting ==
    (/\ pc \in {"pass1", "pass2"}
     /\ idx <= Len(lines)
     /\ MnemonicsKnown(lines)
     /\ pc' # "raised") =>
        address' = address + (IF IsStatement(lines[idx]) THEN 1 ELSE 0)

C3_AddressContiguity == [](C3_Returned) /\ [][C3_Counting]_vars

\* two statements around a pure label and under a comment line are assembled
C3_Witness ==
    /\ pc = "returned"
    /\ MnemonicsKnown(lines)
    /\ Len(lines) = MaxLines
    /\ \E k \in 2..Len(lines) : IsPureLabel(lines[k]) \/ IsBlank(lines[k])
    /\ IsStatement(lines[1])
    /\ Len(result.value) = NumStatements(lines)
    /\ Len(result.value) >= 1

(***************************************************************************)
(* C4: for r in 0..7 and v in 0..63, LOADI (0x0), STORE (0x6), LOAD (0x7), *)
(* JZ (0xD) and JNZ (0xE) with operands Rr, v encode to                    *)
(* (opcode << 12) | (r << 9) | v, and JUMP v encodes to 0xC000 | v.        *)
(***************************************************************************)
RegLow6Opcodes == { << LOADI, 0 >>, << STORE, 6 >>, << LOAD, 7 >>, << JZ, 13 >>, << JNZ, 14 >> }

\* the operand texts of the registers 0..7 and of the values 0..63
RegTexts == [r \in 0..7 |-> RegName(r)]
Low6Texts == [v \in 0..63 |-> Str(v)]

C4_RegLow6Encoding ==
    ret # NoRet =>
        \A r \in 0..7, v \in 0..63 :
            /\ call.operands = << RegTexts[r], Low6Texts[v] >> =>
                   \A m \in RegLow6Opcodes :
                       upper(call.mnemonic) = m[1] => ret = Return(m[2] * 4096 + r * 512 + v)
            /\ (call.operands = << Low6Texts[v] >> /\ upper(call.mnemonic) = JUMP) =>
                   ret = Return(49152 + v)

\* JNZ R7, 63 has been encoded to 0xEE3F
C4_Witness ==
    /\ call = [mnemonic |-> JNZ, operands |-> << RegName(7), Str(63) >>]
    /\ ret = Return(60991)

(***************************************************************************)
(* C5: for Rd, Rs1, Rs2 in 0..7, ADD (0x1), SUB (0x2) and MUL (0xD) encode *)
(* to a word with that opcode nibble, bits[11:9] = Rs1, bits[8:6] = Rd and *)
(* bits[5:0] = 0; the word does not depend on Rs2.                         *)
(***************************************************************************)
ThreeRegOpcodes == { << ADD, 1 >>, << SUB, 2 >>, << MUL, 13 >> }

C6_PushPopEncoding ==
    ret # NoRet =>
        \A r \in 0..7 :
            /\ (upper(call.mnemonic) = PUSH /\ call.operands = << RegTexts[r] >>) =>
                   ret = Return(57344 + r * 512)
            /\ (upper(call.mnemonic) = POP /\ call.operands = << RegTexts[r] >>) =>
                   ret = Return(57344 + r * 512 + 64)

\* the statement of C6 as the specification has it: POP Rr encodes to
\* 0xE000 | (r << 6), fieldA fixed at 0 and the register index in fieldB
C6_PopRegisterInFieldB ==
    ret # NoRet =>
        \A r \in 0..7 :
            /\ (upper(call.mnemonic) = PUSH /\ call.operands = << RegTexts[r] >>) =>
                   ret = Return(57344 + r * 512)
            /\ (upper(call.mnemonic) = POP /\ call.operands = << RegTexts[r] >>) =>
                   ret = Return(57344 + r * 64)

\* POP R3 has been encoded to 0xE640
C6_Witness ==
    /\ call = [mnemonic |-> POP, operands |-> << RegName(3) >>]
    /\ ret = Return(58944)

(***************************************************************************)
(* C7: for LOADI, STORE, LOAD, JUMP, JZ and JNZ, a value v for the low-6   *)
(* slot outside 0..63, too large or negative, is refused with a range      *)
(* error naming v and the bound 63, and no word is produced.               *)
(***************************************************************************)
Low6Mnemonics == { LOADI, STORE, LOAD, JUMP, JZ, JNZ }

\* the position of the low-6 operand in the operand list of the mnemonic
Low6Position(mnemonic) == IF mnemonic = JUMP THEN 1 ELSE 2

\* the statement has the operands its mnemonic takes and they parse
HasLow6(mnemonic, operands) ==
    /\ mnemonic \in Low6Mnemonics
    /\ Len(operands) = Low6Position(mnemonic)
    /\ mnemonic # JUMP => ~Raised(parse_register(operands[1]))
    /\ ~Raised(parse_immediate(operands[Low6Position(mnemonic)]))

Low6Value(mnemonic, operands) == parse_immediate(operands[Low6Position(mnemonic)]).value

RangeErrors == { "Immediate value exceeds 6-bit range", "Address exceeds 6-bit range",
                 "Jump address exceeds 6-bit range" }

C7_Low6RangeRejected ==
    (/\ ret # NoRet
     /\ HasLow6(upper(call.mnemonic), call.operands)
     /\ Low6Value(upper(call.mnemonic), call.operands) \notin 0..63) =>
        /\ Raised(ret)
        /\ ret.kind \in RangeErrors
        /\ ret.value = Low6Value(upper(call.mnemonic), call.operands)
        /\ ret.hi = 63

(***************************************************************************)
(* C8: AND, OR, XOR, SHL, SHR, MOV, CMP, NOT, DIV, IN and OUT never encode:*)
(* whatever the operand list, the result is the not-implemented error      *)
(* naming the mnemonic, an error no unknown mnemonic gets.                 *)
(***************************************************************************)
Unimplemented == { AND, OR, XOR, SHL, SHR, MOV, CMP, NOT, DIV, IN_, OUT }

C8_NotImplemented ==
    ret # NoRet =>
        /\ upper(call.mnemonic) \in Unimplemented =>
               /\ Raised(ret)
               /\ ret.kind = "Instruction encoding not implemented"
               /\ ret.text = upper(call.mnemonic)
        /\ ~InOpcodes(upper(call.mnemonic)) =>
               /\ Raised(ret)
               /\ ret.kind # "Instruction encoding not implemented"

\* AND R0, R1, R2 has been refused
C8_Witness ==
    /\ call = [mnemonic |-> AND, operands |-> << RegName(0), RegName(1), RegName(2) >>]
    /\ Raised(ret)
    /\ ret.text = AND

(***************************************************************************)
(* C9: a statement whose mnemonic is not in the opcode table makes the     *)
(* assembly fail with the unknown-instruction error naming the mnemonic;   *)
(* it is never skipped or encoded.                                         *)
(***************************************************************************)
\* the run got as far as line k
Reached(k) == pc = "returned" \/ (pc = "raised" /\ idx >= k)

C9_UnknownMnemonicRejected ==
    Finished =>
        \A k \in 1..Len(lines) :
            (/\ IsStatement(lines[k])
             /\ ~InOpcodes(assemble_line(lines[k]).mnemonic)
             /\ Reached(k)) =>
                /\ pc = "raised"
                /\ idx = k
                /\ result.cause = Raise("Unknown instruction", assemble_line(lines[k]).mnemonic, 0, 0)

(***************************************************************************)
(* C10: if a statement fails to encode (unknown or not-implemented         *)
(* mnemonic, missing or malformed operand, range violation), assemble      *)
(* stops at the first such statement, returns no list, and the error       *)
(* carries that statement's address, the number of non-label statements    *)
(* before it.                                                              *)
(***************************************************************************)
FailsToEncode(ls, k, tbl) ==
    /\ IsStatement(ls[k])
    /\ LET parsed == assemble_line(ls[k])
           operands == Substitute(parsed.operands, tbl)
       IN  \/ Raised(encode_instruction(parsed.mnemonic, operands))
           \/ /\ HasLow6(parsed.mnemonic, operands)
              /\ Low6Value(parsed.mnemonic, operands) \notin 0..63

C10_AbortAtFirstFailure ==
    Finished =>
        IF \E k \in 1..Len(lines) : FailsToEncode(lines, k, labels)
        THEN LET first == CHOOSE k \in 1..Len(lines) :
                              /\ FailsToEncode(lines, k, labels)
                              /\ \A j \in 1..(k - 1) : ~FailsToEncode(lines, j, labels)
             IN  /\ pc = "raised"
                 /\ idx = first
                 /\ result.value = <<>>
                 /\ result.address = StatementsBefore(lines, first)
        ELSE pc = "returned"

(***************************************************************************)
(* C12: a program that defines the same label on two different lines is    *)
(* rejected by assemble, not assembled with one of the two bindings.       *)
(***************************************************************************)
C12_DuplicateLabelRejected ==
    pc = "returned" =>
        \A j \in 1..Len(lines), k \in 1..Len(lines) :
            (j # k /\ DefinesLabel(lines[j]) /\ DefinesLabel(lines[k])) =>
                LabelOf(lines[j]) # LabelOf(lines[k])

(***************************************************************************)
(* C14: within one run nothing is encoded until the first pass has visited *)
(* every line, so that encoding works with the symbol table of the whole   *)
(* file, and the symbol table is not modified once encoding has started.   *)
(***************************************************************************)
Encoding_Started == pc \in {"pass2", "returned", "raised"}

\* while anything can be encoded, the table is the one of the whole file
C14_TableComplete ==
    /\ Encoding_Started => labels = first_pass(lines, 1, <<>>, 0)
    /\ ~Encoding_Started => (instructions = <<>> /\ result = NoResult)

C14_Order ==
    /\ (pc # "pass2" /\ pc' = "pass2") => (pc = "pass1" /\ idx = Len(lines) + 1)
    /\ (pc = "pass1" /\ pc' = "pass1") => idx' = idx + 1
    /\ (instructions' # instructions \/ result' # result) => pc = "pass2"
    /\ Encoding_Started => labels' = labels

C14_TwoPassOrder == [](C14_TableComplete) /\ [][C14_Order]_vars

\* a forward reference has been encoded: JZ R1, L before L: HALT gives 0xD201
C14_Witness ==
    /\ lines = << Stmt(JZ, << RegName(1), L >>), Labelled(L, HALT) >>
    /\ pc = "returned"
    /\ result.value = << << 0, 53761 >>, << 1, 61440 >> >>

(***************************************************************************)
(* C15: every word assemble emits is a 16-bit unsigned value whose top 4   *)
(* bits are the opcode nibble the opcode table gives the statement's       *)
(* mnemonic.                                                               *)
(***************************************************************************)
C15_Emitted ==
    (pc = "pass2" /\ instructions' # instructions) =>
        LET word == instructions'[Len(instructions')][2]
        IN  /\ word \in 0..65535
            /\ word \div 4096 = Opcode(assemble_line(lines[idx]).mnemonic)

C15_WordsAre16Bit == [][C15_Emitted]_vars

(***************************************************************************)
(* C16: operands resolve by a three-way classification: a register name    *)
(* R0..R7 in any letter case gives its index where a register is expected, *)
(* also when the program defines a label of the same spelling; a           *)
(* non-register token bound in the symbol table gives its address before   *)
(* any numeric parsing; any other token is a literal, with 0x1F -> 31,     *)
(* 0b101 -> 5, 10 -> 10 and [5] -> 5.                                      *)
(***************************************************************************)
IsRegisterToken(token) == \E r \in 0..7 : RegTexts[r] = upper(token)
RegisterIndex(token) == CHOOSE r \in 0..7 : RegTexts[r] = upper(token)

C16_Literals ==
    /\ parse_immediate(Hex1F) = Return(31)
    /\ parse_immediate(Bin101) = Return(5)
    /\ parse_immediate(Str(10)) = Return(10)
    /\ parse_immediate(Bracket5) = Return(5)

\* a statement "register, value" whose value is a bound label or a literal in range
Classified(parsed, tbl) ==
    /\ \E m \in RegLow6Opcodes : parsed.mnemonic = m[1]
    /\ Len(parsed.operands) = 2
    /\ IsRegisterToken(parsed.operands[1])
    /\ ~IsRegisterToken(parsed.operands[2])
    /\ \/ parsed.operands[2] \in DOMAIN tbl
       \/ /\ ~Raised(parse_immediate(parsed.operands[2]))
          /\ parse_immediate(parsed.operands[2]).value \in 0..63

ClassifiedWord(parsed, tbl) ==
    LET m == CHOOSE m \in RegLow6Opcodes : parsed.mnemonic = m[1]
    IN  m[2] * 4096 + RegisterIndex(parsed.operands[1]) * 512
            + (IF parsed.operands[2] \in DOMAIN tbl THEN tbl[parsed.operands[2]]
               ELSE parse_immediate(parsed.operands[2]).value)

C16_Resolved ==
    (/\ pc = "pass2"
     /\ idx <= Len(lines)
     /\ IsStatement(lines[idx])
     /\ Classified(assemble_line(lines[idx]), labels)) =>
        instructions' = Append(instructions,
                               << address, ClassifiedWord(assemble_line(lines[idx]), labels) >>)

C16_OperandResolution == [](C16_Literals) /\ [][C16_Resolved]_vars

(***************************************************************************)
(* C13: the symbol table belongs to one run: whatever was assembled before *)
(* on the same Assembler, a call gives the outcome (the same instruction   *)
(* list or the same failure) that it gives on a fresh Assembler.           *)
(***************************************************************************)
C13_RunIsolation ==
    Finished => result = assemble(lines, <<>>)

(***************************************************************************)
(* C11: in main the output file is opened and written only after assemble  *)
(* has returned for the whole input; when the input file is missing or     *)
(* assemble raises, the message goes to the error stream, the exit status  *)
(* is 1 and no file is created or modified; a run that completes without   *)
(* an error exits with status 0.                                           *)
(***************************************************************************)
C11_Failed == Len(argv) >= 2 /\ (pc = "raised" \/ (pc = "new" /\ ~fs[argv[2]].exists))

C11_Exit ==
    mainpc = "exited" =>
        /\ C11_Failed =>
              /\ exit_code = 1
              /\ Len(stderr) = 1
              /\ stderr[1].e = (IF pc = "raised" THEN result
                                ELSE Raise("No such file or directory", argv[2], 2, 0))
              /\ stdout = <<>>
        /\ (Len(argv) >= 2 /\ stderr = <<>>) => (pc = "returned" /\ exit_code = 0)
        /\ exit_code = 0 => (pc = "returned" /\ stderr = <<>>)

C11_Write ==
    fs' # fs =>
        /\ pc = "returned"
        /\ Len(argv) > 2
        /\ fs' = [fs EXCEPT ![argv[3]] = File(TRUE, TRUE, format_verilog(result.value))]
        /\ exit_code' = 0

C11_OutputOnlyAfterSuccess == [](C11_Exit) /\ [][C11_Write]_vars

\* "L: HALT" assembled into a new output file
C11_Witness ==
    /\ mainpc = "exited"
    /\ exit_code = 0
    /\ argv = << ProgName, InputName, OutputName >>
    /\ fs[InputName].text = Labelled(L, HALT)
    /\ fs[OutputName].text =
          Join(<< VerilogHeader1, VerilogHeader2, VerilogHeader3, VerilogHeader4, <<>>,
                  VerilogHeader5,
                  << " ", " ", " ", " ", "m", "e", "m", "o", "r", "y", "[", "0", "]", " ",
                     "=", " ", "1", "6", "'", "h", "F", "0", "0", "0", ";" >> >>,
               << "\n" >>)

(***************************************************************************)
(* C17: in AdvancedCompiler.compile the passes keep the addressing intact: *)
(* the number and order of the non-label entries is the same before and    *)
(* after optimize, a label-only entry never consumes an address, and every *)
(* label defined in the source and named as the target of a JUMP, JZ or    *)
(* JNZ is still bound after the re-collection, to the address it had       *)
(* before optimization.                                                    *)
(***************************************************************************)
NonLabel(entries) == SelectSeq(entries, LAMBDA e : e.mnemonic # LABEL)

NonLabelBefore(entries, k) ==
    Cardinality({ j \in 1..(k - 1) : entries[j].mnemonic # LABEL })

SourceLines == split(comp_source, "\n")

C17_AddressingIntact ==
    LET before == parse(comp_source)
        bound == CollectLabels(before, 1, <<>>, 0)
    IN  /\ stage # "none" =>
              /\ Len(NonLabel(program)) = Len(NonLabel(before))
              /\ \A n \in 1..Len(NonLabel(program)) :
                    \/ NonLabel(program)[n] = NonLabel(before)[n]
                    \/ /\ NonLabel(before)[n].mnemonic = ADD
                       /\ NonLabel(program)[n].mnemonic = LOADI
                       /\ NonLabel(program)[n].operands[1] = NonLabel(before)[n].operands[1]
        /\ stage \in {"collected", "done"} =>
              \A k \in 1..Len(program) :
                 program[k].mnemonic = LABEL =>
                    /\ program[k].label \in DOMAIN symbols
                    /\ \E j \in 1..Len(program) :
                          /\ program[j].label = program[k].label
                          /\ symbols[program[k].label] = NonLabelBefore(program, j)
        /\ stage = "done" =>
              \A k \in 1..Len(SourceLines), j \in 1..Len(SourceLines) :
                 (/\ DefinesLabel(SourceLines[k])
                  /\ IsJump(SourceLines[j])
                  /\ JumpTarget(SourceLines[j]) = LabelOf(SourceLines[k])) =>
                    /\ LabelOf(SourceLines[k]) \in DOMAIN symbols
                    /\ LabelOf(SourceLines[k]) \in DOMAIN bound =>
                          symbols[LabelOf(SourceLines[k])] = bound[LabelOf(SourceLines[k])]

====
